---- MODULE Spec2Model ----
(***************************************************************************)
(* Model of the LTO backup system (iphizic/lto-backup).                    *)
(*                                                                         *)
(* Spec          JobManager and BackupJob of modules/backup_job.py: the   *)
(*               job table, the job objects, their worker threads and the *)
(*               external tar|mbuffer pipeline each backup worker runs.    *)
(* SpecRegistry  the catalog file and the routines that append to it and  *)
(*               search it (modules/registry_manager.py,                  *)
(*               modules/file_utils.py).                                   *)
(*                                                                         *)
(* Text is modelled as sequences of one-character strings, so that split,  *)
(* strip, join and substring search are computed, not assumed.             *)
(***************************************************************************)
EXTENDS Integers, Sequences, FiniteSets, TLC

VARIABLES
    now,            \* wall clock (datetime.now()), in hours
    jobs,           \* JobManager.jobs: job_id -> index of a BackupJob object
    objs,           \* the BackupJob objects constructed so far
    registry_file,  \* content of the catalog file, character by character
    reg,            \* SpecRegistry: the last registry call and what it returned
    backup_dir,     \* the copies of the catalog in registry_backups, oldest first
    pruner,         \* SpecPrune: the locals of a prune that is under way
    manifest_dir,   \* the names of the files in the manifest directory
    bak_files,      \* the <registry_file>.bak.<time> copies made by a rebuild
    drive,          \* SpecTape: the call of a TapeDrive method that is under way
    monitor,        \* SpecMonitor: the last SystemMonitor call and its result
    changer,        \* SpecChanger: a tape change that is under way
    tape,           \* SpecIndex: the tape in the drive and where it stands
    manager         \* SpecLock: the job-table lock and the calls that take it

vars ==
    <<now, jobs, objs, registry_file, reg, backup_dir, pruner, manifest_dir,
      bak_files, drive, monitor, changer, tape, manager>>

-----------------------------------------------------------------------------
(* Bounds of the model.                                                    *)

MaxJobs == 2
MaxThreads == 1
MaxLines == 2
MaxTime == 2
MaxAge == 1
RandValues == 2
MaxFile == 1
MaxInitLines == 2
MaxCatalogLines == 3
MaxClock == 3
MaxAgeDays == 2
MaxBackups == 2
MaxCalls == 3

-----------------------------------------------------------------------------
(* Sequences of characters.                                                *)

\* '\n'.join(parts), sep.join(parts)
RECURSIVE Join(_, _)
Join(parts, sep) ==
    IF Len(parts) = 0 THEN <<>>
    ELSE IF Len(parts) = 1 THEN parts[1]
    ELSE parts[1] \o sep \o Join(Tail(parts), sep)

\* Position of the first c in s at or after position i, 0 when there is none
RECURSIVE IndexOf(_, _, _)
IndexOf(s, c, i) ==
    IF i > Len(s) THEN 0
    ELSE IF s[i] = c THEN i
    ELSE IndexOf(s, c, i + 1)

\* str.split(sep) for a one-character separator
RECURSIVE split(_, _)
split(s, sep) ==
    LET i == IndexOf(s, sep, 1)
    IN  IF i = 0 THEN <<s>>
        ELSE <<SubSeq(s, 1, i - 1)>> \o split(SubSeq(s, i + 1, Len(s)), sep)

\* str.splitlines(): no empty last line for a text that ends with a newline
splitlines(s) ==
    IF s = <<>> THEN <<>>
    ELSE LET parts == split(s, "\n")
         IN  IF parts[Len(parts)] = <<>>
             THEN SubSeq(parts, 1, Len(parts) - 1)
             ELSE parts

RECURSIVE lstrip(_)
lstrip(s) == IF s # <<>> /\ Head(s) = " " THEN lstrip(Tail(s)) ELSE s

RECURSIVE rstrip(_)
rstrip(s) ==
    IF s # <<>> /\ s[Len(s)] = " " THEN rstrip(SubSeq(s, 1, Len(s) - 1)) ELSE s

\* str.strip()
strip(s) == rstrip(lstrip(s))

\* `label in line`: label occurs somewhere in line
contains(line, label) ==
    \E i \in 0..(Len(line) - Len(label)) :
        SubSeq(line, i + 1, i + Len(label)) = label

-----------------------------------------------------------------------------
(* modules/backup_job.py: enumerations and records.                        *)

PENDING == "pending"
RUNNING == "running"
PAUSED == "paused"
COMPLETED == "completed"
FAILED == "failed"
CANCELLED == "cancelled"

JobStatus == {PENDING, RUNNING, PAUSED, COMPLETED, FAILED, CANCELLED}

BACKUP == "backup"
RESTORE == "restore"
VERIFY == "verify"
CLEAN == "clean"

JobType == {BACKUP, RESTORE, VERIFY, CLEAN}

None == <<>>

\* self.result before the worker has stored one
NoResult == [status |-> "none", error_message |-> "", registry_entry |-> None]

JobResult(status, error_message, registry_entry) ==
    [status |-> status, error_message |-> error_message,
     registry_entry |-> registry_entry]

\* BackupJob.__init__: a new job object. cancel_in_pipeline is history, not a
\* field of the class: whether cancel() took effect while a pipeline of the
\* job was running.
NewJob(job_id, job_type) ==
    [job_id |-> job_id, job_type |-> job_type, status |-> PENDING,
     result |-> NoResult, start_time |-> -1, cancellation_event |-> FALSE,
     threads |-> <<>>, cancel_in_pipeline |-> FALSE, starts |-> <<>>]

\* The keyword arguments a caller hands to start(): an empty text is a
\* parameter that was not given.
Kwargs ==
    { [source |-> <<"s">>, destination |-> <<"d">>, label |-> <<"a">>],
      [source |-> <<"s">>, destination |-> <<"d">>, label |-> <<>>],
      [source |-> <<>>, destination |-> <<>>, label |-> <<"a">>] }

\* A worker thread running _execute_task(params): its position, its
\* arguments and its local variables (process is the Popen object, buffer the
\* lines written to its stdout and not read yet).
NewThread(kwargs) ==
    [pc |-> "start", params |-> kwargs, checks |-> <<>>,
     process |-> "none", buffer |-> 0, emitted |-> 0]

\* A worker thread that has finished: its arguments and locals are gone
NoKwargs == [source |-> <<>>, destination |-> <<>>, label |-> <<>>]

DoneThread ==
    [pc |-> "done", params |-> NoKwargs, checks |-> <<>>,
     process |-> "none", buffer |-> 0, emitted |-> 0]

ResourceStatus == {"ok", "warning", "critical", "unknown"}

\* What TapeDrive.get_status() can return: ERROR when mt failed; otherwise
\* READY, OFFLINE or UNKNOWN from the mt output, CLEANING_REQUIRED when
\* tapeinfo reports the cleaning bit.
TapeInfos ==
    { [status |-> "error", cleaning_required |-> FALSE,
       is_write_protected |-> FALSE] }
    \cup { [status |-> IF c THEN "cleaning_required" ELSE s,
            cleaning_required |-> c, is_write_protected |-> w] :
           s \in {"ready", "offline", "unknown"}, c \in BOOLEAN, w \in BOOLEAN }

is_ready_for_write(info) ==
    IF info.status = "offline" THEN FALSE
    ELSE IF info.status = "error" THEN FALSE
    ELSE IF info.cleaning_required THEN FALSE
    ELSE IF info.is_write_protected THEN FALSE
    ELSE TRUE

\* SystemMonitor's thresholds; sizes are in MiB, ratios in percent
MIN_MEMORY_FOR_MBUFFER == 512
WARNING_MEMORY_THRESHOLD == 85
CRITICAL_MEMORY_THRESHOLD == 95

\* Buffer sizes a SystemMonitor is constructed with, and the figures psutil
\* reports; all are zero when psutil failed
BufferSizes == {256, 512, 1024, 2048, 4096}
MemoryAvailable == {0, 256, 512, 600, 768, 1024, 2048, 4096, 8192}
MemoryTotal == {0, 1024, 4096, 32768, 131072}

\* No SystemMonitor method has been called
\* No buffer plan has been computed
NoPlan ==
    [buffer_size |-> 0, size |-> [value |-> 0, unit |-> ""],
     fill_percent |-> "", block_size |-> "", memory_status |-> "unknown"]

NoMonitor ==
    [op |-> "none", mbuffer_size |-> 0, memory_available |-> 0,
     memory_total |-> 0, status |-> "unknown", recommended_size |-> 0,
     disk_status |-> "unknown", plan |-> NoPlan]

max(a, b) == IF a >= b THEN a ELSE b

\* memory_usage_ratio > threshold, line 116 and the comparisons after it
usage_above(memory_available, memory_total, threshold) ==
    IF memory_total > 0
    THEN (memory_total - memory_available) * 100 > threshold * memory_total
    ELSE 100 > threshold

\* SystemMonitor.check_memory_for_mbuffer: the status and the size returned
check_memory_for_mbuffer(mbuffer_size, memory_available, memory_total) ==
    LET required_memory == mbuffer_size
        available_memory == memory_available - MIN_MEMORY_FOR_MBUFFER
        critical == usage_above(memory_available, memory_total,
                                CRITICAL_MEMORY_THRESHOLD)
        warning == usage_above(memory_available, memory_total,
                               WARNING_MEMORY_THRESHOLD)
    IN  IF memory_available < MIN_MEMORY_FOR_MBUFFER
        THEN [status |-> "critical", recommended_size |-> 0]
        ELSE IF available_memory < required_memory
        THEN [status |-> IF critical THEN "critical" ELSE "warning",
              recommended_size |-> max(MIN_MEMORY_FOR_MBUFFER,
                                       (available_memory * 8) \div 10)]
        ELSE IF critical
        THEN [status |-> "critical", recommended_size |-> required_memory]
        ELSE IF warning
        THEN [status |-> "warning", recommended_size |-> required_memory]
        ELSE [status |-> "ok", recommended_size |-> required_memory]

\* SystemMonitor(): the buffer size a job's monitor is built with, "2G"
default_mbuffer_size == 2048

\* The memory snapshots a job's system check is run under:
\* <<memory_available, memory_total>>
JobSnapshots == { <<256, 1024>>, <<1024, 32768>>, <<1024, 1024>>, <<4096, 4096>> }

\* A readiness check that looks at the disk only: what C21 rules out
check_system_readiness_DiskOnly(memory, disk, raised) ==
    IF raised THEN FALSE
    ELSE disk # "critical"

\* _check_system_readiness: False when memory or disk is critical, or when
\* the check itself raised.
check_system_readiness(memory, disk, raised) ==
    IF raised THEN FALSE
    ELSE ~(memory = "critical" \/ disk = "critical")

\* JobManager._generate_job_id: type, timestamp to the second, 2 random bytes
generate_job_id(job_type, timestamp, random_suffix) ==
    <<job_type, timestamp, random_suffix>>

Objs == 1..Len(objs)

Threads(o) == 1..Len(objs[o].threads)

RECURSIVE CountThreads(_)
CountThreads(n) ==
    IF n = 0 THEN 0 ELSE Len(objs[n].threads) + CountThreads(n - 1)

TotalThreads == CountThreads(Len(objs))

Terminal == {COMPLETED, FAILED, CANCELLED}

returncode(process) ==
    CASE process = "exit0" -> 0
      [] process = "exit1" -> 1
      [] process = "killed" -> -15
      [] OTHER -> -1

-----------------------------------------------------------------------------
(* JobManager operations.                                                  *)

\* create_job(job_type, **kwargs): kwargs are passed to BackupJob.__init__,
\* which accepts only tape_drive and config_path, so task parameters
\* (source=, label=, ...) raise TypeError before anything is registered.
CreateJob(job_type, task_kwargs, random_suffix) ==
    /\ Len(objs) < MaxJobs
    /\ IF task_kwargs
       THEN UNCHANGED <<jobs, objs>>
       ELSE LET job_id == generate_job_id(job_type, now, random_suffix)
                o == Len(objs) + 1
            IN  /\ objs' = Append(objs, NewJob(job_id, job_type))
                /\ jobs' = [i \in DOMAIN jobs \cup {job_id} |->
                              IF i = job_id THEN o ELSE jobs[i]]
    /\ UNCHANGED <<now, registry_file, reg, backup_dir, pruner, manifest_dir, bak_files, drive, monitor, changer, tape, manager>>

\* Whether a pipeline started by one of the job's workers is running
PipelineRunning(job) ==
    \E t \in 1..Len(job.threads) : job.threads[t].process = "running"

\* BackupJob.cancel; the test of the status and the two assignments are taken
\* as one step of the caller
cancel(job) ==
    IF job.status \in {RUNNING, PAUSED}
    THEN [job EXCEPT !.cancellation_event = TRUE, !.status = CANCELLED,
                     !.cancel_in_pipeline = @ \/ PipelineRunning(job)]
    ELSE job

\* BackupJob.pause
pause(job) ==
    IF job.status = RUNNING THEN [job EXCEPT !.status = PAUSED] ELSE job

\* BackupJob.resume
resume(job) ==
    IF job.status = PAUSED THEN [job EXCEPT !.status = RUNNING] ELSE job

Cancel(o) ==
    /\ objs' = [objs EXCEPT ![o] = cancel(@)]
    /\ UNCHANGED <<now, jobs, registry_file, reg, backup_dir, pruner, manifest_dir, bak_files, drive, monitor, changer, tape, manager>>

Pause(o) ==
    /\ objs' = [objs EXCEPT ![o] = pause(@)]
    /\ UNCHANGED <<now, jobs, registry_file, reg, backup_dir, pruner, manifest_dir, bak_files, drive, monitor, changer, tape, manager>>

Resume(o) ==
    /\ objs' = [objs EXCEPT ![o] = resume(@)]
    /\ UNCHANGED <<now, jobs, registry_file, reg, backup_dir, pruner, manifest_dir, bak_files, drive, monitor, changer, tape, manager>>

\* JobManager.cancel_job
CancelJob(job_id) ==
    /\ job_id \in DOMAIN jobs
    /\ objs' = [objs EXCEPT ![jobs[job_id]] = cancel(@)]
    /\ UNCHANGED <<now, jobs, registry_file, reg, backup_dir, pruner, manifest_dir, bak_files, drive, monitor, changer, tape, manager>>

\* JobManager.cleanup_completed_jobs
jobs_to_remove(max_age_hours) ==
    { job_id \in DOMAIN jobs :
        /\ objs[jobs[job_id]].status \in {COMPLETED, FAILED, CANCELLED}
        /\ objs[jobs[job_id]].start_time # -1
        /\ objs[jobs[job_id]].start_time < now - max_age_hours }

CleanupCompletedJobs(max_age_hours) ==
    /\ jobs' = [i \in DOMAIN jobs \ jobs_to_remove(max_age_hours) |-> jobs[i]]
    /\ UNCHANGED <<now, objs, registry_file, reg, backup_dir, pruner, manifest_dir, bak_files, drive, monitor, changer, tape, manager>>

\* BackupJob.start(**kwargs)
Start(o, kwargs) ==
    /\ IF objs[o].status # PENDING
       THEN UNCHANGED objs
       ELSE /\ TotalThreads < MaxThreads
            /\ objs' = [objs EXCEPT
                          ![o].threads = Append(@, NewThread(kwargs)),
                          ![o].cancellation_event = FALSE]
    /\ UNCHANGED <<now, jobs, registry_file, reg, backup_dir, pruner, manifest_dir, bak_files, drive, monitor, changer, tape, manager>>

MaxStarts == 2

\* start(), lines 169-171, of a call that other calls may overlap: the
\* status is tested; the call returns False when it is not PENDING
StartCheck(o, kwargs) ==
    /\ Len(objs[o].starts) < MaxStarts
    /\ objs' = [objs EXCEPT ![o].starts =
                  Append(@, IF objs[o].status # PENDING
                            THEN [pc |-> "done", kwargs |-> kwargs,
                                  returned |-> FALSE]
                            ELSE [pc |-> "checked", kwargs |-> kwargs,
                                  returned |-> FALSE])]
    /\ UNCHANGED <<now, jobs, registry_file, reg, backup_dir, pruner,
                   manifest_dir, bak_files, drive, monitor, changer, tape,
                   manager>>

\* start(), lines 173-188, of the call c that found the status PENDING: the
\* thread is created, the cancellation flag is cleared, the thread is
\* started, and the call returns True
StartLaunch(o, c) ==
    /\ c \in 1..Len(objs[o].starts)
    /\ objs[o].starts[c].pc = "checked"
    /\ objs' = [objs EXCEPT
                  ![o].threads = Append(@, NewThread(objs[o].starts[c].kwargs)),
                  ![o].cancellation_event = FALSE,
                  ![o].starts[c].pc = "done",
                  ![o].starts[c].returned = TRUE]
    /\ UNCHANGED <<now, jobs, registry_file, reg, backup_dir, pruner,
                   manifest_dir, bak_files, drive, monitor, changer, tape,
                   manager>>

Tick ==
    /\ now < MaxTime
    /\ now' = now + 1
    /\ UNCHANGED <<jobs, objs, registry_file, reg, backup_dir, pruner, manifest_dir, bak_files, drive, monitor, changer, tape, manager>>

-----------------------------------------------------------------------------
(* The worker thread of a job: BackupJob._execute_task and the _execute_*  *)
(* method it dispatches to.                                                *)

At(o, t, pc) == objs[o].threads[t].pc = pc

Goto(o, t, pc) == [objs EXCEPT ![o].threads[t].pc = pc]

\* A check of _execute_backup passed: on to the next one. checks keeps the
\* outcome of each check the worker has made (the locals source, label,
\* ready, ...).
Passed(o, t, check, ok, pc) ==
    [objs EXCEPT ![o].threads[t].pc = pc,
                 ![o].threads[t].checks = Append(@, <<check, ok>>)]

\* _execute_task, lines 199-215: the method returned `result`; the worker
\* stores it and derives the job's status from it.
Returned(o, t, result) ==
    [objs EXCEPT ![o].result = result,
                 ![o].status = IF result.status = COMPLETED
                               THEN COMPLETED ELSE FAILED,
                 ![o].threads[t] = DoneThread]

\* A handler that builds the failed result but leaves the status as it was:
\* what C6 rules out
Excepted_StatusKept(o, t) ==
    [objs EXCEPT ![o].result = JobResult(FAILED, "critical_error", None),
                 ![o].threads[t] = DoneThread]

\* _execute_task, lines 217-230: an exception escaped the method
Excepted(o, t) ==
    [objs EXCEPT ![o].status = FAILED,
                 ![o].result = JobResult(FAILED, "critical_error", None),
                 ![o].threads[t] = DoneThread]

FirstPc(job_type) ==
    CASE job_type = BACKUP -> "backup_params"
      [] job_type = RESTORE -> "restore"
      [] job_type = VERIFY -> "verify"
      [] job_type = CLEAN -> "clean"

ExecuteTaskBegin(o, t) ==
    /\ At(o, t, "start")
    /\ objs' = [objs EXCEPT ![o].status = RUNNING,
                            ![o].start_time = now,
                            ![o].threads[t].pc = FirstPc(objs[o].job_type)]
    /\ UNCHANGED <<now, jobs, registry_file, reg, backup_dir, pruner, manifest_dir, bak_files, drive, monitor, changer, tape, manager>>

\* _execute_backup, lines 234-245
BackupCheckParams(o, t) ==
    /\ At(o, t, "backup_params")
    /\ LET params == objs[o].threads[t].params
           ok == ~(params.source = <<>> \/ params.label = <<>>)
       IN  objs' = IF ~ok
                   THEN Returned(o, t, JobResult(FAILED, "no_source_or_label", None))
                   ELSE Passed(o, t, "params", ok, "backup_source")
    /\ UNCHANGED <<now, jobs, registry_file, reg, backup_dir, pruner, manifest_dir, bak_files, drive, monitor, changer, tape, manager>>

\* _execute_backup, lines 247-256
BackupCheckSource(o, t, exists) ==
    /\ At(o, t, "backup_source")
    /\ objs' = IF ~exists
               THEN Returned(o, t, JobResult(FAILED, "source_not_found", None))
               ELSE Passed(o, t, "source", exists, "backup_system")
    /\ UNCHANGED <<now, jobs, registry_file, reg, backup_dir, pruner, manifest_dir, bak_files, drive, monitor, changer, tape, manager>>

\* _execute_backup, lines 258-267
BackupCheckSystem(o, t, memory_available, memory_total, disk, raised) ==
    /\ At(o, t, "backup_system")
    /\ LET memory == check_memory_for_mbuffer(default_mbuffer_size,
                                              memory_available, memory_total)
           ok == check_system_readiness(memory.status, disk, raised)
       IN  /\ objs' = IF ~ok
                      THEN Returned(o, t, JobResult(FAILED, "system_not_ready", None))
                      ELSE Passed(o, t, "system", ok, "backup_tape")
           /\ monitor' = IF raised THEN monitor
                         ELSE [NoMonitor EXCEPT
                                 !.op = "check_all_resources",
                                 !.mbuffer_size = default_mbuffer_size,
                                 !.memory_available = memory_available,
                                 !.memory_total = memory_total,
                                 !.status = memory.status,
                                 !.recommended_size = memory.recommended_size]
    /\ UNCHANGED <<now, jobs, registry_file, reg, backup_dir, pruner, manifest_dir, bak_files, drive, changer, tape, manager>>

\* A tape check that goes on to the pipeline whatever is_ready_for_write
\* answered: what C5 rules out
BackupCheckTape_Ungated(o, t, info) ==
    /\ At(o, t, "backup_tape")
    /\ objs' = Passed(o, t, "tape", is_ready_for_write(info), "backup_prepare")
    /\ UNCHANGED <<now, jobs, registry_file, reg, backup_dir, pruner, manifest_dir, bak_files, drive, monitor, changer, tape, manager>>

\* _execute_backup, lines 269-279
BackupCheckTape(o, t, info) ==
    /\ At(o, t, "backup_tape")
    /\ LET ready == is_ready_for_write(info)
       IN  objs' = IF ~ready
                   THEN Returned(o, t, JobResult(FAILED, "tape_not_ready", None))
                   ELSE Passed(o, t, "tape", ready, "backup_prepare")
    /\ UNCHANGED <<now, jobs, registry_file, reg, backup_dir, pruner, manifest_dir, bak_files, drive, monitor, changer, tape, manager>>

\* _execute_backup, lines 281-327: manifest name, mbuffer parameters, the
\* command line, and Popen of the pipeline
BackupStartPipeline(o, t) ==
    /\ At(o, t, "backup_prepare")
    /\ objs' = [objs EXCEPT ![o].threads[t].pc = "backup_read",
                            ![o].threads[t].process = "running"]
    /\ UNCHANGED <<now, jobs, registry_file, reg, backup_dir, pruner, manifest_dir, bak_files, drive, monitor, changer, tape, manager>>

\* The pipeline writes a line to its output
PipelineOutput(o, t) ==
    /\ objs[o].threads[t].process = "running"
    /\ objs[o].threads[t].emitted < MaxLines
    /\ objs' = [objs EXCEPT ![o].threads[t].buffer = @ + 1,
                            ![o].threads[t].emitted = @ + 1]
    /\ UNCHANGED <<now, jobs, registry_file, reg, backup_dir, pruner, manifest_dir, bak_files, drive, monitor, changer, tape, manager>>

\* The pipeline exits on its own, with code 0 or with an error code
PipelineExit(o, t, code) ==
    /\ objs[o].threads[t].process = "running"
    /\ objs' = [objs EXCEPT ![o].threads[t].process =
                              IF code = 0 THEN "exit0" ELSE "exit1"]
    /\ UNCHANGED <<now, jobs, registry_file, reg, backup_dir, pruner, manifest_dir, bak_files, drive, monitor, changer, tape, manager>>

\* Popen.terminate(): SIGTERM to a process that is still running, nothing
\* to one that has exited
terminate(process) == IF process = "running" THEN "killed" ELSE process

\* _execute_backup, lines 333-347: one turn of the loop over readline()
BackupReadLine(o, t) ==
    /\ At(o, t, "backup_read")
    /\ LET th == objs[o].threads[t]
       IN  \/ /\ th.buffer > 0
              /\ objs' = IF objs[o].cancellation_event
                         THEN [objs EXCEPT
                                 ![o].threads[t].process = terminate(@),
                                 ![o].threads[t].pc = "backup_wait"]
                         ELSE [objs EXCEPT ![o].threads[t].buffer = @ - 1]
           \/ /\ th.buffer = 0
              /\ th.process # "running"
              /\ objs' = Goto(o, t, "backup_wait")
    /\ UNCHANGED <<now, jobs, registry_file, reg, backup_dir, pruner, manifest_dir, bak_files, drive, monitor, changer, tape, manager>>

\* _execute_backup, lines 349-361: process.wait() and the exit code
BackupWait(o, t) ==
    /\ At(o, t, "backup_wait")
    /\ objs[o].threads[t].process # "running"
    /\ objs' = IF returncode(objs[o].threads[t].process) # 0
               THEN Returned(o, t, JobResult(FAILED, "backup_error", None))
               ELSE Goto(o, t, "backup_tapeinfo")
    /\ UNCHANGED <<now, jobs, registry_file, reg, backup_dir, pruner, manifest_dir, bak_files, drive, monitor, changer, tape, manager>>

\* _execute_backup, lines 363-391: the tape position, the registry entry
\* (label, file index) and the successful result
BackupComplete(o, t, file_number) ==
    /\ At(o, t, "backup_tapeinfo")
    /\ objs' = Returned(o, t, JobResult(COMPLETED, "",
                   <<objs[o].threads[t].params.label, file_number>>))
    /\ UNCHANGED <<now, jobs, registry_file, reg, backup_dir, pruner, manifest_dir, bak_files, drive, monitor, changer, tape, manager>>

\* _execute_backup, lines 393-402: an exception inside the try block
BackupRaiseInner(o, t) ==
    /\ objs[o].threads[t].pc \in
         {"backup_prepare", "backup_read", "backup_wait", "backup_tapeinfo"}
    /\ objs' = Returned(o, t, JobResult(FAILED, "backup_exception", None))
    /\ UNCHANGED <<now, jobs, registry_file, reg, backup_dir, pruner, manifest_dir, bak_files, drive, monitor, changer, tape, manager>>

\* An exception outside the try block of _execute_backup (os.path.exists,
\* is_ready_for_write, os.makedirs): it reaches the handler of _execute_task
RaiseOuter(o, t) ==
    /\ objs[o].threads[t].pc \in
         {"backup_source", "backup_tape", "backup_prepare"}
    /\ objs' = Excepted(o, t)
    /\ UNCHANGED <<now, jobs, registry_file, reg, backup_dir, pruner, manifest_dir, bak_files, drive, monitor, changer, tape, manager>>

\* _execute_restore
ExecuteRestore(o, t) ==
    /\ At(o, t, "restore")
    /\ LET params == objs[o].threads[t].params
       IN  objs' = IF params.destination = <<>> \/ params.label = <<>>
                   THEN Returned(o, t, JobResult(FAILED, "no_destination_or_label", None))
                   ELSE Returned(o, t, JobResult(COMPLETED, "", None))
    /\ UNCHANGED <<now, jobs, registry_file, reg, backup_dir, pruner, manifest_dir, bak_files, drive, monitor, changer, tape, manager>>

\* _execute_verify
ExecuteVerify(o, t) ==
    /\ At(o, t, "verify")
    /\ objs' = IF objs[o].threads[t].params.label = <<>>
               THEN Returned(o, t, JobResult(FAILED, "no_label", None))
               ELSE Returned(o, t, JobResult(COMPLETED, "", None))
    /\ UNCHANGED <<now, jobs, registry_file, reg, backup_dir, pruner, manifest_dir, bak_files, drive, monitor, changer, tape, manager>>

\* _execute_clean: the status query may raise, which the method catches
ExecuteClean(o, t, raised) ==
    /\ At(o, t, "clean")
    /\ objs' = IF raised
               THEN Returned(o, t, JobResult(FAILED, "clean_error", None))
               ELSE Returned(o, t, JobResult(COMPLETED, "", None))
    /\ UNCHANGED <<now, jobs, registry_file, reg, backup_dir, pruner, manifest_dir, bak_files, drive, monitor, changer, tape, manager>>

-----------------------------------------------------------------------------
(* The catalog file: modules/file_utils.py and modules/registry_manager.py. *)

\* codecs.BOM_UTF8, one character of the file
BOM == "BOM"

\* SafeFileHandler.read_file: the text of the file; a leading byte order
\* mark selects the utf-8-sig decoder, which drops it
read_file(content) ==
    IF content # <<>> /\ Head(content) = BOM THEN Tail(content) ELSE content

\* SafeFileHandler.write_file with ensure_utf8: the new content of the file,
\* with a byte order mark in front when the file was missing or empty
write_file(old_content, content) ==
    IF content # <<>> /\ Head(content) # BOM /\ old_content = <<>>
    THEN <<BOM>> \o content
    ELSE content

\* SafeFileHandler.read_lines with strip_lines=True
read_lines(content, skip_empty) ==
    LET lines == splitlines(read_file(content))
        stripped == [n \in 1..Len(lines) |-> strip(lines[n])]
    IN  IF skip_empty
        THEN SelectSeq(stripped, LAMBDA line : line # <<>>)
        ELSE stripped

\* The dictionary built from the fields of a catalog line
Entry(parts, line_num) ==
    [timestamp |-> parts[1], label |-> parts[2], tapes |-> parts[3],
     file_index |-> parts[4], manifest |-> parts[5], line_number |-> line_num]

\* The f-string of add_registry_entry and write_registry_entry
format_line(entry) ==
    Join(<<entry.timestamp, entry.label, entry.tapes, entry.file_index,
           entry.manifest>>, <<";">>)

\* RegistryFileHandler.read_registry, from line line_num on
RECURSIVE read_registry_from(_, _)
read_registry_from(lines, line_num) ==
    IF line_num > Len(lines) THEN <<>>
    ELSE LET line == lines[line_num]
             raw == split(line, ";")
             parts == [k \in 1..Len(raw) |-> strip(raw[k])]
         IN  (IF Head(strip(line)) = "#" THEN <<>>
              ELSE IF Len(parts) >= 5 THEN <<Entry(parts, line_num)>>
              ELSE <<>>)
             \o read_registry_from(lines, line_num + 1)

read_registry(content) == read_registry_from(read_lines(content, TRUE), 1)

\* RegistryFileHandler.write_registry_entry: the new content of the file
write_registry_entry(content, entry) ==
    LET entries == read_registry(content) \o <<entry>>
        lines == [n \in 1..Len(entries) |-> format_line(entries[n])]
    IN  write_file(content, Join(lines, <<"\n">>))

\* RegistryManager.add_registry_entry: the new content of the file
add_registry_entry(content, entry) ==
    content \o format_line(entry) \o <<"\n">>

\* RegistryManager.get_all_backups, from line line_num on
RECURSIVE get_all_backups_from(_, _)
get_all_backups_from(lines, line_num) ==
    IF line_num > Len(lines) THEN <<>>
    ELSE LET parts == split(strip(lines[line_num]), ";")
         IN  (IF Len(parts) >= 5 THEN <<Entry(parts, line_num)>> ELSE <<>>)
             \o get_all_backups_from(lines, line_num + 1)

get_all_backups(content) == get_all_backups_from(read_lines(content, TRUE), 1)

NotFound ==
    [found |-> FALSE, timestamp |-> <<>>, label |-> <<>>, tapes |-> <<>>,
     file_index |-> <<>>, manifest |-> <<>>, line_number |-> 0]

\* RegistryManager.find_backup_by_label
find_backup_by_label(content, label) ==
    LET lines == read_lines(content, TRUE)
        hits == { n \in 1..Len(lines) :
                    /\ contains(lines[n], label)
                    /\ Len(split(strip(lines[n]), ";")) >= 5 }
    IN  IF hits = {} THEN NotFound
        ELSE LET n == CHOOSE m \in hits : \A k \in hits : m <= k
                 parts == split(strip(lines[n]), ";")
             IN  [found |-> TRUE, timestamp |-> parts[1], label |-> parts[2],
                  tapes |-> parts[3], file_index |-> parts[4],
                  manifest |-> parts[5], line_number |-> n]

\* Lines a catalog can hold before the calls of the model: entries written
\* by add_registry_entry, and a comment and a short line left by an operator
InitLines ==
    { <<"1", ";", "a", "b", ";", "T", ";", "0", ";", "m">>,
      <<"1", ";", "b", ";", "T", ";", "0", ";", "m">>,
      <<"x", ";", "b", ";", "T", ";", "0", ";", "m">>,
      <<"#", "c">>,
      <<"x", ";", "a">> }

Labels == { <<"a">>, <<"b">> }

\* The entries handed to the append routines
Entries ==
    { [timestamp |-> <<"2">>, label |-> label, tapes |-> <<"T">>,
       file_index |-> <<"1">>, manifest |-> <<"n">>] : label \in Labels }

NoEntry ==
    [timestamp |-> <<>>, label |-> <<>>, tapes |-> <<>>, file_index |-> <<>>,
     manifest |-> <<>>]

NoCall ==
    [op |-> "none", via |-> "", entry |-> NoEntry, before |-> <<>>,
     label |-> <<>>, result |-> NotFound, after_append |-> FALSE,
     max_age_days |-> 0, clock |-> 0, returned |-> 0, saved |-> FALSE,
     ok |-> FALSE, issues |-> <<>>, calls |-> 0]

\* No prune is under way
NoPrune ==
    [pc |-> "idle", kept_backups |-> <<>>, removed_count |-> 0,
     clock |-> 0, max_age_days |-> 0]

\* The text of the lines, each ended by a newline
RECURSIVE Lines(_)
Lines(lines) ==
    IF lines = <<>> THEN <<>> ELSE Head(lines) \o <<"\n">> \o Lines(Tail(lines))

InitCatalogs ==
    UNION { { Lines(lines) : lines \in [1..n -> InitLines] } :
              n \in 0..MaxInitLines }

\* The catalog of the model has room for MaxCatalogLines lines as long as
\* the line of an entry
HasRoom(entry) ==
    Len(registry_file) + Len(format_line(entry)) + 1
        <= MaxCatalogLines * (Len(format_line(entry)) + 1)

\* A call of add_registry_entry(entry)
AddRegistryEntry(entry) ==
    /\ reg.calls < MaxCalls
    /\ HasRoom(entry)
    /\ registry_file' = add_registry_entry(registry_file, entry)
    /\ reg' = [NoCall EXCEPT !.op = "append", !.via = "add_registry_entry",
                             !.entry = entry, !.before = registry_file,
                             !.calls = reg.calls + 1]
    /\ UNCHANGED <<now, jobs, objs, backup_dir, pruner, manifest_dir, bak_files, drive, monitor, changer, tape, manager>>

\* A call of RegistryFileHandler.write_registry_entry(path, entry)
WriteRegistryEntry(entry) ==
    /\ reg.calls < MaxCalls
    /\ HasRoom(entry)
    /\ registry_file' = write_registry_entry(registry_file, entry)
    /\ reg' = [NoCall EXCEPT !.op = "append", !.via = "write_registry_entry",
                             !.entry = entry, !.before = registry_file,
                             !.calls = reg.calls + 1]
    /\ UNCHANGED <<now, jobs, objs, backup_dir, pruner, manifest_dir, bak_files, drive, monitor, changer, tape, manager>>

\* A call of find_backup_by_label(label); after_append tells that the call
\* before it was an append, whose entry and catalog are kept
FindBackupByLabel(label) ==
    /\ reg.calls < MaxCalls
    /\ reg' = [reg EXCEPT !.op = "find", !.label = label,
                          !.calls = reg.calls + 1,
                          !.result = find_backup_by_label(registry_file, label),
                          !.after_append = (reg.op = "append")]
    /\ UNCHANGED <<now, jobs, objs, registry_file, backup_dir, pruner, manifest_dir, bak_files, drive, monitor, changer, tape, manager>>

-----------------------------------------------------------------------------
(* Pruning the catalog and the copies kept of it.                          *)

\* Seconds in a day, the factor of max_age_days
SecondsPerDay == 86400

\* RegistryManager._cleanup_old_backups(keep_last=10)
keep_last == 10

DigitValue ==
    ("0" :> 0) @@ ("1" :> 1) @@ ("2" :> 2) @@ ("3" :> 3) @@ ("4" :> 4)
    @@ ("5" :> 5) @@ ("6" :> 6) @@ ("7" :> 7) @@ ("8" :> 8) @@ ("9" :> 9)

\* Whether datetime.strptime accepts the text: the timestamps of the model
\* are one digit, the day they were written
Parseable(timestamp) ==
    Len(timestamp) = 1 /\ timestamp[1] \in DOMAIN DigitValue

\* datetime.strptime(timestamp, ...).timestamp(), in seconds
strptime(timestamp) == DigitValue[timestamp[1]] * SecondsPerDay

\* cleanup_old_backups_from_registry, lines 529 and 534-543: whether the
\* entry goes to kept_backups; clock is datetime.now().timestamp() in days
is_kept_inclusive(timestamp, clock, max_age_days) ==
    IF ~Parseable(timestamp) THEN TRUE
    ELSE strptime(timestamp)
           >= clock * SecondsPerDay - max_age_days * SecondsPerDay

is_kept(timestamp, clock, max_age_days) ==
    IF ~Parseable(timestamp) THEN TRUE
    ELSE strptime(timestamp)
           > clock * SecondsPerDay - max_age_days * SecondsPerDay

kept_backups(backups, clock, max_age_days) ==
    SelectSeq(backups, LAMBDA backup :
                         is_kept(backup.timestamp, clock, max_age_days))

\* RegistryManager._cleanup_old_backups: the newest keep_last copies stay
cleanup_old_backups(dir) ==
    IF Len(dir) > keep_last
    THEN SubSeq(dir, Len(dir) - keep_last + 1, Len(dir))
    ELSE dir

\* RegistryManager.backup_registry: the copies after the call. No copy is
\* made when the catalog is missing or shutil.copy2 raises; the method then
\* returns False.
backup_registry(dir, content, copy_ok) ==
    IF content = <<>> \/ ~copy_ok THEN dir
    ELSE cleanup_old_backups(Append(dir, content))

\* The file written from a list of entries, one line each
write_entries(entries) ==
    Lines([n \in 1..Len(entries) |-> format_line(entries[n])])

\* RegistryManager.cleanup_old_backups_from_registry(max_age_days), run
\* without another writer of the catalog
CleanupOldBackupsFromRegistry(max_age_days, clock, copy_ok) ==
    /\ reg.calls < MaxCalls
    /\ Len(backup_dir) < MaxBackups
    /\ LET backups == get_all_backups(registry_file)
           kept == kept_backups(backups, clock, max_age_days)
           removed_count == Len(backups) - Len(kept)
       IN  /\ registry_file' = IF removed_count > 0
                               THEN write_entries(kept)
                               ELSE registry_file
           /\ backup_dir' = IF removed_count > 0
                            THEN backup_registry(backup_dir, registry_file, copy_ok)
                            ELSE backup_dir
           /\ reg' = [NoCall EXCEPT !.op = "prune", !.before = registry_file,
                                    !.max_age_days = max_age_days,
                                    !.clock = clock,
                                    !.returned = removed_count,
                                    !.saved = (removed_count > 0 /\ copy_ok),
                                    !.calls = reg.calls + 1]
    /\ UNCHANGED <<now, jobs, objs, pruner, manifest_dir, bak_files, drive, monitor, changer, tape, manager>>

\* RegistryManager.recover_registry_from_backup: the newest copy replaces
\* the catalog, then backup_registry() copies the restored catalog
RecoverRegistryFromBackup(restore_ok, copy_ok) ==
    /\ reg.calls < MaxCalls
    /\ Len(backup_dir) < MaxBackups
    /\ LET found == Len(backup_dir) > 0 /\ restore_ok
           latest_backup == IF found THEN backup_dir[Len(backup_dir)] ELSE <<>>
       IN  /\ registry_file' = IF found THEN latest_backup ELSE registry_file
           /\ backup_dir' = IF found
                            THEN backup_registry(backup_dir, latest_backup, copy_ok)
                            ELSE backup_dir
           /\ reg' = [NoCall EXCEPT !.op = "recover", !.before = registry_file,
                                    !.saved = FALSE,
                                    !.calls = reg.calls + 1]
    /\ UNCHANGED <<now, jobs, objs, pruner, manifest_dir, bak_files, drive, monitor, changer, tape, manager>>

\* cleanup_old_backups_from_registry, lines 525-543, while other callers
\* use the catalog: the entries are read and sorted into kept and removed
PruneRead(max_age_days, clock) ==
    /\ reg.calls < MaxCalls
    /\ pruner.pc = "idle"
    /\ LET backups == get_all_backups(registry_file)
           kept == kept_backups(backups, clock, max_age_days)
       IN  pruner' = [pc |-> "write", kept_backups |-> kept,
                      removed_count |-> Len(backups) - Len(kept),
                      clock |-> clock, max_age_days |-> max_age_days]
    /\ reg' = [NoCall EXCEPT !.op = "prune", !.before = registry_file,
                             !.max_age_days = max_age_days, !.clock = clock,
                             !.calls = reg.calls + 1]
    /\ UNCHANGED <<now, jobs, objs, registry_file, backup_dir, manifest_dir, bak_files, drive, monitor, changer, tape, manager>>

\* cleanup_old_backups_from_registry, lines 545-565: the copy and the
\* rewrite from kept_backups
PruneWrite(copy_ok) ==
    /\ pruner.pc = "write"
    /\ registry_file' = IF pruner.removed_count > 0
                        THEN write_entries(pruner.kept_backups)
                        ELSE registry_file
    /\ backup_dir' = IF pruner.removed_count > 0
                     THEN backup_registry(backup_dir, registry_file, copy_ok)
                     ELSE backup_dir
    /\ pruner' = NoPrune
    /\ UNCHANGED <<now, jobs, objs, reg, manifest_dir, bak_files, drive, monitor, changer, tape, manager>>

MaxManifests == 2
MaxRebuildClock == 1

\* Names of files that may lie in the manifest directory; "m" and "n" are
\* the manifests the catalog lines of InitLines and Entries name
ManifestNames ==
    { <<"1","_","2","_","a",".","t","x","t">>,
      <<"1","_","2","_","a","_","b",".","t","x","t">>,
      <<"x","_","y","_","a",".","t","x","t">>,
      <<"1","_","a",".","t","x","t">>,
      <<"1","_","2","_","a",".","l","o","g">>,
      <<"m">>, <<"n">> }

\* str.endswith
endswith(s, suffix) ==
    /\ Len(s) >= Len(suffix)
    /\ SubSeq(s, Len(s) - Len(suffix) + 1, Len(s)) = suffix

\* Path(manifest_dir).glob("*.txt")
glob_txt(dir) == { name \in dir : endswith(name, <<".","t","x","t">>) }

\* datetime.now().strftime(...), one character for the day
strftime(clock) == << CHOOSE c \in DOMAIN DigitValue : DigitValue[c] = clock >>

\* rebuild_registry_from_manifests, lines 406-427: the entries made from the
\* manifest files from the n-th on
RECURSIVE manifest_entries(_, _, _)
manifest_entries(manifest_files, n, clock) ==
    IF n > Len(manifest_files) THEN <<>>
    ELSE LET filename == manifest_files[n]
             name_without_ext == SubSeq(filename, 1, Len(filename) - 4)
             parts == split(name_without_ext, "_")
         IN  (IF /\ contains(filename, <<"_">>)
                 /\ endswith(filename, <<".","t","x","t">>)
                 /\ Len(parts) >= 3
              THEN << [timestamp |-> strftime(clock),
                       label |-> Join(SubSeq(parts, 3, Len(parts)), <<"_">>),
                       tapes |-> <<"[","N","/","A","]">>,
                       file_index |-> <<"0">>,
                       manifest |-> filename] >>
              ELSE <<>>)
             \o manifest_entries(manifest_files, n + 1, clock)

\* The orders in which glob may list a set of files
Listings(files) ==
    { listing \in [1..Cardinality(files) -> files] :
        \A i, j \in 1..Cardinality(files) : i # j => listing[i] # listing[j] }

\* RegistryManager.rebuild_registry_from_manifests
RebuildRegistryFromManifests(manifest_files, clock, copy_ok) ==
    /\ reg.calls < MaxCalls
    /\ manifest_files \in Listings(glob_txt(manifest_dir))
    /\ LET entries == manifest_entries(manifest_files, 1, clock)
           written == entries # <<>> /\ (registry_file = <<>> \/ copy_ok)
       IN  /\ registry_file' = IF written THEN write_entries(entries)
                                          ELSE registry_file
           /\ bak_files' = IF written /\ registry_file # <<>>
                           THEN bak_files \cup {registry_file}
                           ELSE bak_files
           /\ reg' = [NoCall EXCEPT !.op = "rebuild", !.before = registry_file,
                                    !.clock = clock, !.ok = written,
                                    !.calls = reg.calls + 1]
    /\ UNCHANGED <<now, jobs, objs, backup_dir, pruner, manifest_dir, drive, monitor, changer, tape, manager>>

\* int(text) raises no ValueError
is_int(text) ==
    LET t == strip(text)
        digits == IF t # <<>> /\ t[1] \in {"+", "-"} THEN Tail(t) ELSE t
    IN  /\ digits # <<>>
        /\ \A n \in 1..Len(digits) : digits[n] \in DOMAIN DigitValue

\* verify_registry, lines 159-183: the issues of the lines from line_num on
RECURSIVE verify_lines(_, _, _)
verify_lines(lines, line_num, dir) ==
    IF line_num > Len(lines) THEN <<>>
    ELSE LET line == strip(lines[line_num])
             parts == split(line, ";")
         IN  (IF line = <<>> THEN <<>>
              ELSE IF Len(parts) < 5 THEN << <<line_num, "fields">> >>
              ELSE (IF strip(parts[5]) \notin dir
                    THEN << <<line_num, "manifest">> >> ELSE <<>>)
                   \o (IF parts[2] = <<>>
                       THEN << <<line_num, "label">> >> ELSE <<>>)
                   \o (IF ~is_int(parts[4])
                       THEN << <<line_num, "file_index">> >> ELSE <<>>))
             \o verify_lines(lines, line_num + 1, dir)

\* RegistryManager.verify_registry; exists tells whether an empty catalog is
\* an empty file or no file
VerifyRegistry(exists) ==
    /\ reg.calls < MaxCalls
    /\ LET issues == IF registry_file = <<>> /\ ~exists
                     THEN << <<0, "missing">> >>
                     ELSE verify_lines(read_lines(registry_file, TRUE), 1,
                                       manifest_dir)
       IN  reg' = [NoCall EXCEPT !.op = "verify", !.before = registry_file,
                                 !.ok = (issues = <<>>), !.issues = issues,
                                 !.calls = reg.calls + 1]
    /\ UNCHANGED <<now, jobs, objs, registry_file, backup_dir, pruner,
                   manifest_dir, bak_files, drive, monitor, changer, tape, manager>>

\* Catalog lines with a file index or a manifest that verify_registry is to
\* report
VerifyLines ==
    { <<"1",";","a",";","T",";","-","1",";","m">>,
      <<"1",";","a",";","T",";","x",";","m">>,
      <<"1",";","a",";","T",";","0",";","q">> }

VerifyCatalogs ==
    UNION { { Lines(lines) : lines \in [1..n -> InitLines \cup VerifyLines] } :
            n \in 0..MaxInitLines }

MaxDriveCalls == 2
MaxCount == 1

max_retries == 3

\* What `mt status` printed, as far as get_status looks at it
MtOutputs ==
    [online : BOOLEAN, offline : BOOLEAN, write_protect : BOOLEAN, on : BOOLEAN]

NoOutput == [online |-> FALSE, offline |-> FALSE, write_protect |-> FALSE, on |-> FALSE]

\* TapeInfo(device=...): the defaults of the dataclass
NewTapeInfo ==
    [status |-> "unknown", cleaning_required |-> FALSE,
     is_write_protected |-> FALSE]

\* No TapeDrive method has been called
NoDrive ==
    [pc |-> "idle", call |-> "none", retry_on_error |-> TRUE, attempt |-> 0,
     runs |-> 0, sleeps |-> 0, failures |-> << >>, done |-> FALSE,
     success |-> FALSE, output |-> NoOutput, info |-> NewTapeInfo,
     ready |-> FALSE, reason |-> "", calls |-> 0]

Positioning == {"rewind", "forward_space_file", "backward_space_file", "write_file_mark"}

\* _execute_mt_command is entered by a method of TapeDrive; every caller
\* leaves retry_on_error at its default
ExecuteMtCommand(call) ==
    /\ drive.pc = "idle"
    /\ drive.calls < MaxDriveCalls
    /\ drive' = [NoDrive EXCEPT !.pc = "mt", !.call = call,
                                !.calls = drive.calls + 1]
    /\ UNCHANGED <<now, jobs, objs, registry_file, reg, backup_dir, pruner,
                   manifest_dir, bak_files, monitor, changer, tape, manager>>

\* TapeDrive.rewind and TapeDrive.write_file_mark
Rewind == ExecuteMtCommand("rewind")

WriteFileMark == ExecuteMtCommand("write_file_mark")

\* TapeDrive.forward_space_file and backward_space_file: nothing to do for a
\* count that is not positive
SpaceFile(call, count) ==
    IF count <= 0
    THEN /\ drive.pc = "idle"
         /\ drive.calls < MaxDriveCalls
         /\ drive' = [NoDrive EXCEPT !.call = call, !.done = TRUE,
                                     !.success = TRUE,
                                     !.calls = drive.calls + 1]
         /\ UNCHANGED <<now, jobs, objs, registry_file, reg, backup_dir,
                        pruner, manifest_dir, bak_files, monitor, changer, tape, manager>>
    ELSE ExecuteMtCommand(call)

ForwardSpaceFile(count) == SpaceFile("forward_space_file", count)

BackwardSpaceFile(count) == SpaceFile("backward_space_file", count)

\* TapeDrive.get_status, and is_ready_for_write which begins with it
GetStatus == ExecuteMtCommand("get_status")

IsReadyForWrite == ExecuteMtCommand("is_ready_for_write")

\* get_status, lines 173-205: the TapeInfo made from the result of mt status
parse_status(success, output) ==
    IF ~success
    THEN [NewTapeInfo EXCEPT !.status = "error"]
    ELSE [NewTapeInfo EXCEPT
            !.is_write_protected = (output.write_protect /\ (output.on \/ output.online)),
            !.status = IF output.online THEN "ready"
                       ELSE IF output.offline THEN "offline"
                       ELSE "unknown"]

\* The message is_ready_for_write returns with its verdict
ready_reason(info) ==
    IF info.status = "offline" THEN "offline"
    ELSE IF info.status = "error" THEN "error"
    ELSE IF info.cleaning_required THEN "cleaning_required"
    ELSE IF info.is_write_protected THEN "write_protected"
    ELSE "ready"

\* _execute_mt_command has returned (success, output) to its caller
MtReturned(d, success, output) ==
    IF d.call \in Positioning
    THEN [d EXCEPT !.pc = "idle", !.done = TRUE, !.success = success]
    ELSE LET info == parse_status(success, output)
         IN  IF ~success
             THEN [d EXCEPT !.pc = "idle", !.done = TRUE, !.success = FALSE,
                            !.info = info,
                            !.ready = is_ready_for_write(info),
                            !.reason = IF d.call = "is_ready_for_write"
                                       THEN ready_reason(info) ELSE ""]
             ELSE [d EXCEPT !.pc = "tapeinfo", !.success = TRUE,
                            !.output = output, !.info = info]

\* One turn of the loop of _execute_mt_command: subprocess.run and what
\* follows it
MtRun(outcome, output) ==
    /\ drive.pc = "mt"
    /\ LET d == [drive EXCEPT !.runs = drive.runs + 1,
                              !.failures = IF outcome = "ok" THEN drive.failures
                                           ELSE Append(drive.failures, outcome)]
       IN  drive' =
             IF outcome = "ok" THEN MtReturned(d, TRUE, output)
             ELSE IF outcome = "error"
             THEN IF drive.attempt < max_retries - 1 /\ drive.retry_on_error
                  THEN [d EXCEPT !.pc = "sleep"]
                  ELSE MtReturned(d, FALSE, NoOutput)
             ELSE MtReturned(d, FALSE, NoOutput)
    /\ UNCHANGED <<now, jobs, objs, registry_file, reg, backup_dir, pruner,
                   manifest_dir, bak_files, monitor, changer, tape, manager>>

\* time.sleep(2) and the next turn of the loop
MtSleep ==
    /\ drive.pc = "sleep"
    /\ drive' = [drive EXCEPT !.pc = "mt", !.attempt = drive.attempt + 1,
                              !.sleeps = drive.sleeps + 1]
    /\ UNCHANGED <<now, jobs, objs, registry_file, reg, backup_dir, pruner,
                   manifest_dir, bak_files, monitor, changer, tape, manager>>

\* get_status, lines 207-237: tapeinfo; then the verdict of
\* is_ready_for_write when that was the caller
TapeInfoRun(outcome) ==
    /\ drive.pc = "tapeinfo"
    /\ LET info == IF outcome = "cleaning_bit"
                   THEN [drive.info EXCEPT !.cleaning_required = TRUE,
                                           !.status = "cleaning_required"]
                   ELSE drive.info
       IN  drive' = [drive EXCEPT
                       !.pc = "idle", !.done = TRUE, !.info = info,
                       !.ready = is_ready_for_write(info),
                       !.reason = IF drive.call = "is_ready_for_write"
                                  THEN ready_reason(info) ELSE ""]
    /\ UNCHANGED <<now, jobs, objs, registry_file, reg, backup_dir, pruner,
                   manifest_dir, bak_files, monitor, changer, tape, manager>>

\* TapeDriver.rewind of hardware/tape_driver.py: run_command once
DriverRewind(auto_rewind, outcome) ==
    /\ drive.pc = "idle"
    /\ drive.calls < MaxDriveCalls
    /\ drive' = [NoDrive EXCEPT
                   !.call = "driver_rewind", !.done = TRUE,
                   !.runs = IF auto_rewind THEN 1 ELSE 0,
                   !.failures = IF auto_rewind /\ outcome # "ok"
                                THEN <<outcome>> ELSE << >>,
                   !.success = (~auto_rewind \/ outcome = "ok"),
                   !.calls = drive.calls + 1]
    /\ UNCHANGED <<now, jobs, objs, registry_file, reg, backup_dir, pruner,
                   manifest_dir, bak_files, monitor, changer, tape, manager>>

MtOutcomes == {"ok", "error", "timeout", "exception"}

\* A call of check_memory_for_mbuffer on a monitor built for mbuffer_size
CheckMemoryForMbuffer(mbuffer_size, memory_available, memory_total) ==
    /\ LET result == check_memory_for_mbuffer(mbuffer_size, memory_available,
                                              memory_total)
       IN  monitor' = [NoMonitor EXCEPT
                         !.op = "check_memory_for_mbuffer",
                         !.mbuffer_size = mbuffer_size,
                         !.memory_available = memory_available,
                         !.memory_total = memory_total,
                         !.status = result.status,
                         !.recommended_size = result.recommended_size]
    /\ UNCHANGED <<now, jobs, objs, registry_file, reg, backup_dir, pruner,
                   manifest_dir, bak_files, drive, changer, tape, manager>>

\* f"{buffer_size / (1024*1024*1024):.1f}G", f"{...:.0f}M" or f"{...:.0f}K"
\* of a size given in MiB: tenths of a GiB rounded half to even, whole MiB,
\* or nothing left
format_size(buffer_size) ==
    IF buffer_size >= 1024
    THEN LET q == (buffer_size * 10) \div 1024
             r == (buffer_size * 10) % 1024
         IN  [value |-> IF r > 512 \/ (r = 512 /\ q % 2 = 1) THEN q + 1 ELSE q,
              unit |-> "G"]
    ELSE IF buffer_size >= 1
    THEN [value |-> buffer_size, unit |-> "M"]
    ELSE [value |-> 0, unit |-> "K"]

\* MBufferOptimizer.get_optimal_mbuffer_params, from the results of
\* check_all_resources on
get_optimal_mbuffer_params(mem_status, recommended_size, disk_status) ==
    LET buffer_size ==
            IF mem_status = "critical"
            THEN max(MIN_MEMORY_FOR_MBUFFER, recommended_size \div 2)
            ELSE IF mem_status = "warning"
            THEN (recommended_size * 3) \div 4
            ELSE recommended_size
    IN  [buffer_size |-> buffer_size,
         size |-> format_size(buffer_size),
         fill_percent |-> IF mem_status = "critical" THEN "70%"
                          ELSE IF mem_status = "warning" THEN "80%"
                          ELSE "90%",
         block_size |-> IF disk_status = "critical" THEN "512k"
                        ELSE IF buffer_size > 2 * 1024 THEN "1M"
                        ELSE "256k",
         memory_status |-> mem_status]

\* A call of get_optimal_mbuffer_params with a monitor built for mbuffer_size
GetOptimalMbufferParams(mbuffer_size, memory_available, memory_total, disk_status) ==
    /\ LET memory == check_memory_for_mbuffer(mbuffer_size, memory_available,
                                              memory_total)
       IN  monitor' = [NoMonitor EXCEPT
                         !.op = "get_optimal_mbuffer_params",
                         !.mbuffer_size = mbuffer_size,
                         !.memory_available = memory_available,
                         !.memory_total = memory_total,
                         !.status = memory.status,
                         !.recommended_size = memory.recommended_size,
                         !.disk_status = disk_status,
                         !.plan = get_optimal_mbuffer_params(
                                      memory.status, memory.recommended_size,
                                      disk_status)]
    /\ UNCHANGED <<now, jobs, objs, registry_file, reg, backup_dir, pruner,
                   manifest_dir, bak_files, drive, changer, tape, manager>>

\* No tape change is under way. stdin is "open" (an operator answers),
\* "eof" (nothing more to read) or "closed"; has_robot and auto_rewind are
\* the hardware settings of the configuration.
NoChange ==
    [pc |-> "idle", procedure |-> "none", stdin |-> "open",
     has_robot |-> FALSE, auto_rewind |-> TRUE, steps |-> << >>,
     label |-> "", tmp_tapes_file |-> << >>, fixed_waits |-> 0,
     rewind_runs |-> 0, rewind_ok |-> FALSE, result |-> "none"]

\* The two tape change procedures: TapeChanger.change_tape, which mbuffer
\* runs as its change script, and LTOBackupSystem.change_tape
Procedures == {"TapeChanger", "LTOBackupSystem"}

\* The step is entered in the record of steps, once
Step(c, name) ==
    IF c.steps # << >> /\ c.steps[Len(c.steps)] = name THEN c.steps
    ELSE Append(c.steps, name)

\* The procedure ends
Ended(c, result) == [c EXCEPT !.pc = "done", !.result = result]

\* change_tape is called
ChangeTape(procedure) ==
    /\ changer.pc = "idle"
    /\ changer' = [changer EXCEPT !.pc = "cleaning", !.procedure = procedure]
    /\ UNCHANGED <<now, jobs, objs, registry_file, reg, backup_dir, pruner,
                   manifest_dir, bak_files, drive, monitor, tape, manager>>

\* TapeChanger.check_and_handle_cleaning, and lines 199-210 of
\* LTOBackupSystem.change_tape: input() raises EOFError at end of file and
\* ValueError on a closed stdin
CheckCleaning(cleaning_needed, load_ok) ==
    /\ changer.pc = "cleaning"
    /\ LET c == [changer EXCEPT !.steps = Step(changer, "cleaning_check"),
                                !.pc = "prompt"]
       IN  changer' =
             IF ~cleaning_needed THEN c
             ELSE IF changer.procedure = "TapeChanger"
             THEN IF ~changer.has_robot
                  THEN IF changer.stdin = "eof"
                       THEN [c EXCEPT !.fixed_waits = @ + 1]
                       ELSE c
                  ELSE IF load_ok THEN [c EXCEPT !.fixed_waits = @ + 1]
                       ELSE c
             ELSE IF ~changer.has_robot /\ changer.stdin # "open"
                  THEN Ended(c, "raised")
                  ELSE c
    /\ UNCHANGED <<now, jobs, objs, registry_file, reg, backup_dir, pruner,
                   manifest_dir, bak_files, drive, monitor, tape, manager>>

\* request_tape_change: the prompt for the label of the next cassette
PromptLabel ==
    /\ changer.pc = "prompt"
    /\ changer' = [changer EXCEPT !.pc = "read",
                                  !.steps = Step(changer, "prompt")]
    /\ UNCHANGED <<now, jobs, objs, registry_file, reg, backup_dir, pruner,
                   manifest_dir, bak_files, drive, monitor, tape, manager>>

\* request_tape_change: the line is read and stripped; a label is appended
\* to tmp_tapes_file, an empty one leads back to the prompt.
\* sys.stdin.readline() returns "" at end of file and raises ValueError on a
\* closed stdin; input() raises in both cases.
ReadLabel(line) ==
    /\ changer.pc = "read"
    /\ LET raises == \/ changer.stdin = "closed"
                     \/ (changer.stdin = "eof"
                         /\ changer.procedure = "LTOBackupSystem")
           label == IF changer.stdin = "open" THEN line ELSE ""
       IN  changer' =
             IF raises
             THEN Ended(changer, IF changer.procedure = "TapeChanger"
                                 THEN "false" ELSE "raised")
             ELSE IF label # ""
             THEN [changer EXCEPT
                     !.label = label,
                     !.tmp_tapes_file = Append(@, label),
                     !.steps = Step(changer, "append"),
                     !.pc = "wait"]
             ELSE [changer EXCEPT !.pc = "prompt"]
    /\ UNCHANGED <<now, jobs, objs, registry_file, reg, backup_dir, pruner,
                   manifest_dir, bak_files, drive, monitor, tape, manager>>

\* The wait for the insertion of the tape: sys.stdin.readline() with
\* time.sleep(5) when it raises, or input()
WaitInsertion ==
    /\ changer.pc = "wait"
    /\ LET c == [changer EXCEPT !.steps = Step(changer, "wait"),
                                !.pc = "rewind"]
       IN  changer' =
             IF changer.procedure = "TapeChanger"
             THEN IF changer.stdin = "closed"
                  THEN [c EXCEPT !.fixed_waits = @ + 1]
                  ELSE c
             ELSE IF changer.stdin # "open" THEN Ended(c, "raised")
                  ELSE c
    /\ UNCHANGED <<now, jobs, objs, registry_file, reg, backup_dir, pruner,
                   manifest_dir, bak_files, drive, monitor, tape, manager>>

\* self.tape_driver.rewind() and the value change_tape returns:
\* TapeDriver.rewind runs mt only when auto_rewind is set, and
\* LTOBackupSystem.change_tape does not look at what it returned
RewindNewTape(outcome) ==
    /\ changer.pc = "rewind"
    /\ LET ran == changer.auto_rewind
           success == ~ran \/ outcome = "ok"
           c == [changer EXCEPT !.steps = Step(changer, "rewind"),
                                !.rewind_runs = IF ran THEN 1 ELSE 0,
                                !.rewind_ok = ran /\ outcome = "ok"]
       IN  changer' =
             IF changer.procedure = "TapeChanger"
             THEN Ended(c, IF success THEN "true" ELSE "false")
             ELSE Ended(c, "true")
    /\ UNCHANGED <<now, jobs, objs, registry_file, reg, backup_dir, pruner,
                   manifest_dir, bak_files, drive, monitor, tape, manager>>

\* A tape on which nothing was written, at its beginning
MaxTapeFiles == 3

TapeDevices == { "/dev/nst0", "/dev/st0" }

\* A tape at its beginning with no file on it, in the drive of the default
\* configuration, and an empty catalog of the backups written to it.
\* files[k + 1] is the label of the backup whose data stream is tape file k.
NewTape ==
    [pc |-> "idle", tape_dev |-> "/dev/nst0", auto_rewind |-> TRUE,
     file_number |-> 0, files |-> << >>, label |-> << >>, begin |-> 0,
     registry |-> << >>, restored |-> 0, reads_at |-> 0]

\* The pipeline of a backup, tar | mbuffer -o tape_dev, ran to its end with
\* code 0: the data stream is written from the tape's position on, over what
\* was there; when the writer closes the device the driver writes the file
\* mark and leaves the tape after it (/dev/nst0) or rewinds it (/dev/st0)
TapeWriteBackup(label) ==
    /\ tape.pc = "idle"
    /\ tape.file_number < MaxTapeFiles
    /\ Len(tape.registry) < MaxTapeFiles
    /\ tape' = [tape EXCEPT
                  !.pc = "written",
                  !.label = label,
                  !.begin = tape.file_number,
                  !.files = Append(SubSeq(@, 1, tape.file_number), label),
                  !.file_number = IF tape.tape_dev = "/dev/nst0"
                                  THEN tape.file_number + 1
                                  ELSE 0]
    /\ UNCHANGED <<now, jobs, objs, registry_file, reg, backup_dir, pruner,
                   manifest_dir, bak_files, drive, monitor, changer, manager>>

\* _finalize_backup, and lines 363-373 of _execute_backup: after the
\* pipeline has ended, the file number of mt status (0 when the status gave
\* none) goes into the registry entry of the backup
FinalizeBackup(status_ok) ==
    /\ tape.pc = "written"
    /\ LET file_number == IF status_ok THEN tape.file_number ELSE 0
       IN  tape' = [tape EXCEPT
                      !.pc = "idle",
                      !.registry = Append(@, [label |-> tape.label,
                                              file_index |-> file_number,
                                              begin |-> tape.begin])]
    /\ UNCHANGED <<now, jobs, objs, registry_file, reg, backup_dir, pruner,
                   manifest_dir, bak_files, drive, monitor, changer, manager>>

\* TapeDriver.rewind: mt rewind, which auto_rewind false leaves out
rewind(t) ==
    IF t.auto_rewind THEN [t EXCEPT !.file_number = 0] ELSE t

\* TapeDriver.forward_space_files(count): mt fsf stops at the end of the
\* recorded data
forward_space_files(t, count) ==
    [t EXCEPT !.file_number = IF t.file_number + count > Len(t.files)
                              THEN Len(t.files)
                              ELSE t.file_number + count]

\* BackupEngine.restore(label), up to the start of the read: the first
\* entry of the label is looked up, the tape is rewound and spaced forward
\* by the stored index; reads_at is the tape file the read begins at
TapeRestore(n) ==
    /\ tape.pc = "idle"
    /\ n \in 1..Len(tape.registry)
    /\ \A k \in 1..(n - 1) : tape.registry[k].label # tape.registry[n].label
    /\ LET file_num == tape.registry[n].file_index
           rewound == rewind(tape)
           placed == IF file_num > 0
                     THEN forward_space_files(rewound, file_num)
                     ELSE rewound
       IN  tape' = [placed EXCEPT !.restored = n,
                                  !.reads_at = placed.file_number]
    /\ UNCHANGED <<now, jobs, objs, registry_file, reg, backup_dir, pruner,
                   manifest_dir, bak_files, drive, monitor, changer, manager>>

\* The operator rewinds the tape between two backups
TapeRewind ==
    /\ tape.pc = "idle"
    /\ tape.file_number # 0
    /\ tape' = [tape EXCEPT !.file_number = 0, !.restored = 0]
    /\ UNCHANGED <<now, jobs, objs, registry_file, reg, backup_dir, pruner,
                   manifest_dir, bak_files, drive, monitor, changer, manager>>

\* No JobManager call is under way
MaxCallers == 2
MaxTable == 2

Callers == 1..MaxCallers

ManagerOps ==
    { "create_job", "get_job", "list_jobs", "cancel_job",
      "cleanup_completed_jobs" }

\* A JobManager after __init__: no job in the table, job_lock free (0), no
\* thread inside a call. table is the number of jobs in self.jobs; todo is
\* the number of jobs list_jobs has still to ask for their status.
NoManager ==
    [job_lock |-> 0, table |-> 0,
     calls |-> [c \in Callers |-> [pc |-> "idle", op |-> "none", todo |-> 0]]]

\* Thread c enters a JobManager method and reaches its "with self.job_lock"
ManagerCall(c, op) ==
    /\ manager.calls[c].pc = "idle"
    /\ op = "create_job" =>
          manager.table + Cardinality({ d \in Callers :
                              manager.calls[d].op = "create_job" }) < MaxTable
    /\ manager' = [manager EXCEPT !.calls[c] =
                     [pc |-> "waiting", op |-> op, todo |-> 0]]
    /\ UNCHANGED <<now, jobs, objs, registry_file, reg, backup_dir, pruner,
                   manifest_dir, bak_files, drive, monitor, changer, tape>>

\* Thread c gets job_lock; list_jobs will ask the jobs that pass its
\* status_filter, matching of them, for their status
AcquireJobLock(c, matching) ==
    /\ manager.calls[c].pc = "waiting"
    /\ manager.job_lock = 0
    /\ matching \in 0..manager.table
    /\ manager' = [manager EXCEPT
                     !.job_lock = c,
                     !.calls[c].pc = "locked",
                     !.calls[c].todo =
                        IF manager.calls[c].op = "list_jobs"
                        THEN matching ELSE 0]
    /\ UNCHANGED <<now, jobs, objs, registry_file, reg, backup_dir, pruner,
                   manifest_dir, bak_files, drive, monitor, changer, tape>>

\* Thread c leaves the with block and returns
ReleaseJobLock(m, c) ==
    [m EXCEPT !.job_lock = 0,
              !.calls[c] = [pc |-> "idle", op |-> "none", todo |-> 0]]

\* create_job inside the lock: BackupJob(job_id, job_type, **kwargs). With
\* no tape_drive in kwargs the constructor builds a TapeDrive, whose
\* _validate_device runs "mt -f device status" when the device file is
\* there and accessible.
CreateJobConstruct(c, tape_drive_given, device_accessible) ==
    /\ manager.calls[c].pc = "locked"
    /\ manager.calls[c].op = "create_job"
    /\ manager' = IF ~tape_drive_given /\ device_accessible
                  THEN [manager EXCEPT !.calls[c].pc = "mt_status"]
                  ELSE ReleaseJobLock([manager EXCEPT !.table = @ + 1], c)
    /\ UNCHANGED <<now, jobs, objs, registry_file, reg, backup_dir, pruner,
                   manifest_dir, bak_files, drive, monitor, changer, tape>>

\* list_jobs inside the lock: job.get_status() of the next matching job,
\* which calls tape_drive.get_status(), an mt status command
ListJobsGetStatus(c) ==
    /\ manager.calls[c].pc = "locked"
    /\ manager.calls[c].op = "list_jobs"
    /\ manager.calls[c].todo > 0
    /\ manager' = [manager EXCEPT !.calls[c].pc = "mt_status"]
    /\ UNCHANGED <<now, jobs, objs, registry_file, reg, backup_dir, pruner,
                   manifest_dir, bak_files, drive, monitor, changer, tape>>

\* The mt status command that thread c waits for ends
MtStatusEnds(c) ==
    /\ manager.calls[c].pc = "mt_status"
    /\ manager' = IF manager.calls[c].op = "create_job"
                  THEN ReleaseJobLock([manager EXCEPT !.table = @ + 1], c)
                  ELSE [manager EXCEPT !.calls[c].pc = "locked",
                                       !.calls[c].todo = @ - 1]
    /\ UNCHANGED <<now, jobs, objs, registry_file, reg, backup_dir, pruner,
                   manifest_dir, bak_files, drive, monitor, changer, tape>>

\* The rest of a method and its return: list_jobs with no job left to ask,
\* get_job, cancel_job (job.cancel() sets a flag and the status), and
\* cleanup_completed_jobs, which deletes removed of the jobs
ManagerReturn(c, removed) ==
    /\ manager.calls[c].pc = "locked"
    /\ manager.calls[c].op # "create_job"
    /\ manager.calls[c].todo = 0
    /\ removed \in 0..manager.table
    /\ removed > 0 => manager.calls[c].op = "cleanup_completed_jobs"
    /\ manager' = ReleaseJobLock([manager EXCEPT !.table = @ - removed], c)
    /\ UNCHANGED <<now, jobs, objs, registry_file, reg, backup_dir, pruner,
                   manifest_dir, bak_files, drive, monitor, changer, tape>>

Init ==
    /\ now = 0
    /\ jobs = << >>
    /\ objs = << >>
    /\ registry_file = << >>
    /\ reg = NoCall
    /\ backup_dir = << >>
    /\ pruner = NoPrune
    /\ manifest_dir = {}
    /\ bak_files = {}
    /\ drive = NoDrive
    /\ monitor = NoMonitor
    /\ changer = NoChange
    /\ tape = NewTape
    /\ manager = NoManager

Next ==
    \/ \E job_type \in JobType, task_kwargs \in BOOLEAN,
          random_suffix \in 0..(RandValues - 1) :
            CreateJob(job_type, task_kwargs, random_suffix)
    \/ \E o \in Objs, kwargs \in Kwargs : Start(o, kwargs)
    \/ \E o \in Objs : Cancel(o)
    \/ \E o \in Objs : Pause(o)
    \/ \E o \in Objs : Resume(o)
    \/ \E job_id \in DOMAIN jobs : CancelJob(job_id)
    \/ \E max_age_hours \in 0..MaxAge : CleanupCompletedJobs(max_age_hours)
    \/ Tick
    \/ \E o \in Objs : \E t \in Threads(o) : ExecuteTaskBegin(o, t)
    \/ \E o \in Objs : \E t \in Threads(o) : BackupCheckParams(o, t)
    \/ \E o \in Objs : \E t \in Threads(o) : \E exists \in BOOLEAN :
          BackupCheckSource(o, t, exists)
    \/ \E o \in Objs : \E t \in Threads(o) :
          \E snapshot \in JobSnapshots, disk \in ResourceStatus,
             raised \in BOOLEAN :
                BackupCheckSystem(o, t, snapshot[1], snapshot[2], disk, raised)
    \/ \E o \in Objs : \E t \in Threads(o) : \E info \in TapeInfos :
          BackupCheckTape(o, t, info)
    \/ \E o \in Objs : \E t \in Threads(o) : BackupStartPipeline(o, t)
    \/ \E o \in Objs : \E t \in Threads(o) : PipelineOutput(o, t)
    \/ \E o \in Objs : \E t \in Threads(o) : \E code \in {0, 1} :
          PipelineExit(o, t, code)
    \/ \E o \in Objs : \E t \in Threads(o) : BackupReadLine(o, t)
    \/ \E o \in Objs : \E t \in Threads(o) : BackupWait(o, t)
    \/ \E o \in Objs : \E t \in Threads(o) : \E file_number \in 0..MaxFile :
          BackupComplete(o, t, file_number)
    \/ \E o \in Objs : \E t \in Threads(o) : BackupRaiseInner(o, t)
    \/ \E o \in Objs : \E t \in Threads(o) : RaiseOuter(o, t)
    \/ \E o \in Objs : \E t \in Threads(o) : ExecuteRestore(o, t)
    \/ \E o \in Objs : \E t \in Threads(o) : ExecuteVerify(o, t)
    \/ \E o \in Objs : \E t \in Threads(o) : \E raised \in BOOLEAN :
          ExecuteClean(o, t, raised)

Spec == Init /\ [][Next]_vars

InitRegistry ==
    /\ now = 0
    /\ jobs = << >>
    /\ objs = << >>
    /\ registry_file \in InitCatalogs
    /\ reg = NoCall
    /\ backup_dir = << >>
    /\ pruner = NoPrune
    /\ manifest_dir = {}
    /\ bak_files = {}
    /\ drive = NoDrive
    /\ monitor = NoMonitor
    /\ changer = NoChange
    /\ tape = NewTape
    /\ manager = NoManager

NextRegistry ==
    \/ \E entry \in Entries : AddRegistryEntry(entry)
    \/ \E entry \in Entries : WriteRegistryEntry(entry)
    \/ \E label \in Labels : FindBackupByLabel(label)
    \/ \E max_age_days \in 0..MaxAgeDays, clock \in 1..MaxClock,
          copy_ok \in BOOLEAN :
            CleanupOldBackupsFromRegistry(max_age_days, clock, copy_ok)
    \/ \E restore_ok \in BOOLEAN, copy_ok \in BOOLEAN :
            RecoverRegistryFromBackup(restore_ok, copy_ok)

SpecRegistry == InitRegistry /\ [][NextRegistry]_vars

\* A prune and the appends of other callers, on one catalog file
NextPrune ==
    \/ \E max_age_days \in 0..MaxAgeDays, clock \in 1..MaxClock :
            PruneRead(max_age_days, clock)
    \/ \E copy_ok \in BOOLEAN : PruneWrite(copy_ok)
    \/ \E entry \in Entries : AddRegistryEntry(entry)

SpecPrune == InitRegistry /\ [][NextPrune]_vars

\* A catalog and a manifest directory, rebuilt and verified
InitManifests ==
    /\ now = 0
    /\ jobs = << >>
    /\ objs = << >>
    /\ registry_file \in VerifyCatalogs
    /\ reg = NoCall
    /\ backup_dir = << >>
    /\ pruner = NoPrune
    /\ manifest_dir \in { dir \in SUBSET ManifestNames :
                             Cardinality(dir) <= MaxManifests }
    /\ bak_files = {}
    /\ drive = NoDrive
    /\ monitor = NoMonitor
    /\ changer = NoChange
    /\ tape = NewTape
    /\ manager = NoManager

NextManifests ==
    \/ \E manifest_files \in UNION { [1..n -> ManifestNames] : n \in 0..MaxManifests },
          clock \in 1..MaxRebuildClock, copy_ok \in BOOLEAN :
            RebuildRegistryFromManifests(manifest_files, clock, copy_ok)
    \/ \E exists \in BOOLEAN : VerifyRegistry(exists)

SpecManifests == InitManifests /\ [][NextManifests]_vars

\* The methods of a tape drive, one call at a time
NextTape ==
    \/ Rewind
    \/ WriteFileMark
    \/ \E count \in 0..MaxCount : ForwardSpaceFile(count)
    \/ \E count \in 0..MaxCount : BackwardSpaceFile(count)
    \/ GetStatus
    \/ IsReadyForWrite
    \/ \E outcome \in MtOutcomes, output \in MtOutputs : MtRun(outcome, output)
    \/ MtSleep
    \/ \E outcome \in {"cleaning_bit", "no_cleaning_bit", "failed"} :
            TapeInfoRun(outcome)
    \/ \E auto_rewind \in BOOLEAN, outcome \in MtOutcomes :
            DriverRewind(auto_rewind, outcome)

SpecTape == Init /\ [][NextTape]_vars

\* The memory check, on every buffer size and memory snapshot
NextMonitor ==
    \/ \E mbuffer_size \in BufferSizes, memory_available \in MemoryAvailable,
          memory_total \in MemoryTotal :
            /\ memory_available <= memory_total
            /\ CheckMemoryForMbuffer(mbuffer_size, memory_available, memory_total)
    \/ \E mbuffer_size \in BufferSizes, memory_available \in MemoryAvailable,
          memory_total \in MemoryTotal, disk_status \in ResourceStatus :
            /\ memory_available <= memory_total
            /\ GetOptimalMbufferParams(mbuffer_size, memory_available,
                                       memory_total, disk_status)

\* One backup job that create_job has registered, the calls of start() on
\* it, its workers and cancel()
InitStart ==
    /\ now = 0
    /\ objs = << NewJob(generate_job_id(BACKUP, 0, 0), BACKUP) >>
    /\ jobs = [i \in {generate_job_id(BACKUP, 0, 0)} |-> 1]
    /\ registry_file = << >>
    /\ reg = NoCall
    /\ backup_dir = << >>
    /\ pruner = NoPrune
    /\ manifest_dir = {}
    /\ bak_files = {}
    /\ drive = NoDrive
    /\ monitor = NoMonitor
    /\ changer = NoChange
    /\ tape = NewTape
    /\ manager = NoManager

NextStart ==
    \/ \E o \in Objs : \E kwargs \in Kwargs :
          /\ kwargs.source # << >>
          /\ kwargs.label # << >>
          /\ StartCheck(o, kwargs)
    \/ \E o \in Objs : \E c \in 1..MaxStarts : StartLaunch(o, c)
    \/ \E o \in Objs : Cancel(o)
    \/ \E o \in Objs : \E t \in Threads(o) : ExecuteTaskBegin(o, t)
    \/ \E o \in Objs : \E t \in Threads(o) : BackupCheckParams(o, t)
    \/ \E o \in Objs : \E t \in Threads(o) : \E exists \in BOOLEAN :
          BackupCheckSource(o, t, exists)
    \/ \E o \in Objs : \E t \in Threads(o) :
          \E snapshot \in JobSnapshots, disk \in ResourceStatus,
             raised \in BOOLEAN :
                BackupCheckSystem(o, t, snapshot[1], snapshot[2], disk, raised)
    \/ \E o \in Objs : \E t \in Threads(o) : \E info \in TapeInfos :
          BackupCheckTape(o, t, info)
    \/ \E o \in Objs : \E t \in Threads(o) : BackupStartPipeline(o, t)
    \/ \E o \in Objs : \E t \in Threads(o) : PipelineOutput(o, t)
    \/ \E o \in Objs : \E t \in Threads(o) : \E code \in {0, 1} :
          PipelineExit(o, t, code)
    \/ \E o \in Objs : \E t \in Threads(o) : BackupReadLine(o, t)
    \/ \E o \in Objs : \E t \in Threads(o) : BackupWait(o, t)
    \/ \E o \in Objs : \E t \in Threads(o) : \E file_number \in 0..MaxFile :
          BackupComplete(o, t, file_number)

SpecStart == InitStart /\ [][NextStart]_vars

\* A tape change, with an operator or without one
InitChanger ==
    /\ now = 0
    /\ jobs = << >>
    /\ objs = << >>
    /\ registry_file = << >>
    /\ reg = NoCall
    /\ backup_dir = << >>
    /\ pruner = NoPrune
    /\ manifest_dir = {}
    /\ bak_files = {}
    /\ drive = NoDrive
    /\ monitor = NoMonitor
    /\ changer \in { [NoChange EXCEPT !.stdin = stdin, !.has_robot = has_robot,
                                      !.auto_rewind = auto_rewind] :
                        stdin \in {"open", "eof", "closed"},
                        has_robot \in BOOLEAN, auto_rewind \in BOOLEAN }
    /\ tape = NewTape
    /\ manager = NoManager

NextChanger ==
    \/ \E procedure \in Procedures : ChangeTape(procedure)
    \/ \E cleaning_needed \in BOOLEAN, load_ok \in BOOLEAN :
            CheckCleaning(cleaning_needed, load_ok)
    \/ PromptLabel
    \/ \E line \in {"", "L1"} : ReadLabel(line)
    \/ WaitInsertion
    \/ \E outcome \in MtOutcomes : RewindNewTape(outcome)

SpecChanger == InitChanger /\ [][NextChanger]_vars

\* The steps of the procedure are taken as long as there is one to take
SpecChangerLive == SpecChanger /\ WF_vars(NextChanger)

SpecMonitor == Init /\ [][NextMonitor]_vars

\* The threads that call the methods of one JobManager
NextManager ==
    \/ \E c \in Callers : \E op \in ManagerOps : ManagerCall(c, op)
    \/ \E c \in Callers : \E matching \in 0..MaxTable :
          AcquireJobLock(c, matching)
    \/ \E c \in Callers : \E tape_drive_given, device_accessible \in BOOLEAN :
          CreateJobConstruct(c, tape_drive_given, device_accessible)
    \/ \E c \in Callers : ListJobsGetStatus(c)
    \/ \E c \in Callers : MtStatusEnds(c)
    \/ \E c \in Callers : \E removed \in 0..MaxTable : ManagerReturn(c, removed)

SpecManager == Init /\ [][NextManager]_vars

\* Backups written to one tape and restores from it
InitIndex ==
    /\ now = 0
    /\ jobs = << >>
    /\ objs = << >>
    /\ registry_file = << >>
    /\ reg = NoCall
    /\ backup_dir = << >>
    /\ pruner = NoPrune
    /\ manifest_dir = {}
    /\ bak_files = {}
    /\ drive = NoDrive
    /\ monitor = NoMonitor
    /\ changer = NoChange
    /\ tape \in { [NewTape EXCEPT !.tape_dev = tape_dev,
                                  !.auto_rewind = auto_rewind] :
                    tape_dev \in TapeDevices, auto_rewind \in BOOLEAN }
    /\ manager = NoManager

NextIndex ==
    \/ \E label \in Labels : TapeWriteBackup(label)
    \/ \E status_ok \in BOOLEAN : FinalizeBackup(status_ok)
    \/ \E n \in 1..MaxTapeFiles : TapeRestore(n)
    \/ TapeRewind

SpecIndex == InitIndex /\ [][NextIndex]_vars

-----------------------------------------------------------------------------
(* Properties of the job lifecycle.                                        *)

\* The worker of job o has finished
WorkerFinished(o) ==
    /\ Len(objs[o].threads) > 0
    /\ \A t \in Threads(o) : objs[o].threads[t].pc = "done"

\* C1 as claimed: when cancel() took effect while the job's pipeline was
\* running, the job's status is CANCELLED once its worker has finished.
C1_CancelledStaysCancelled ==
    \A o \in Objs :
        (objs[o].cancel_in_pipeline /\ WorkerFinished(o))
            => objs[o].status = CANCELLED

\* C2 as claimed: a job on which cancel() took effect never carries a
\* registry entry in its JobResult.
C2_CancelledHasNoEntry ==
    \A o \in Objs :
        objs[o].cancellation_event => objs[o].result.registry_entry = None

\* The entries of the catalog whose label is `label`
EntriesFor(content, label) ==
    { n \in 1..Len(get_all_backups(content)) :
        get_all_backups(content)[n].label = label }

\* C3 as claimed: a backup job that ended Completed has exactly one entry for
\* its label in the catalog.
C3_CompletedHasOneEntry ==
    \A o \in Objs :
        (/\ objs[o].job_type = BACKUP
         /\ objs[o].status = COMPLETED
         /\ WorkerFinished(o)
         /\ objs[o].result.registry_entry # None)
            => Cardinality(EntriesFor(registry_file,
                                      objs[o].result.registry_entry[1])) = 1

\* C4 as claimed: once a job's status is Completed, Failed or Cancelled, no
\* step changes the status or the JobResult.
C4_TerminalImmutable ==
    [][\A o \in Objs :
          objs[o].status \in Terminal =>
              /\ objs'[o].status = objs[o].status
              /\ objs'[o].result = objs[o].result]_vars

AllChecksPassed ==
    << <<"params", TRUE>>, <<"source", TRUE>>, <<"system", TRUE>>,
       <<"tape", TRUE>> >>

CheckErrors ==
    {"no_source_or_label", "source_not_found", "system_not_ready",
     "tape_not_ready"}

\* Worker t of job o returns in this step
Finishes(o, t) ==
    /\ objs[o].threads[t].pc # "done"
    /\ objs'[o].threads[t].pc = "done"

ExceptionErrors == {"critical_error", "backup_exception", "clean_error"}

C7_CreateRegistersAndLaunches ==
    [][Len(objs') > Len(objs) =>
          /\ Cardinality(DOMAIN jobs') = Cardinality(DOMAIN jobs) + 1
          /\ \A job_id \in DOMAIN jobs : jobs'[job_id] = jobs[job_id]
          /\ Len(objs'[Len(objs')].threads) > 0]_vars

\* C8 as claimed: a job leaves the job table only when its worker has
\* finished, its status is terminal and it is older than the cutoff.
C8_CleanupOnlyFinished ==
    [][\A job_id \in DOMAIN jobs \ DOMAIN jobs' :
          /\ WorkerFinished(jobs[job_id])
          /\ objs[jobs[job_id]].status \in Terminal
          /\ objs[jobs[job_id]].start_time < now]_vars

-----------------------------------------------------------------------------
(* Properties of the catalog.                                              *)

\* The lines of the catalog as a reader of the file sees them
catalog_lines(content) == splitlines(read_file(content))

\* C9 as claimed: an append adds the line of its entry at the end of the
\* catalog and leaves the lines that were there, comment lines and malformed
\* lines included, as they were and in the same order.
C9_AppendKeepsLines ==
    [][reg'.op = "append" =>
          catalog_lines(registry_file')
              = catalog_lines(registry_file) \o <<format_line(reg'.entry)>>]_vars

\* C10 as claimed: when no entry of the catalog has the label L, an append of
\* an entry with label L followed by find(L) returns the fields of that
\* entry.
C10_AppendFindRoundTrip ==
    (/\ reg.op = "find"
     /\ reg.after_append
     /\ reg.label = reg.entry.label
     /\ EntriesFor(reg.before, reg.label) = {})
        => /\ reg.result.found
           /\ reg.result.timestamp = reg.entry.timestamp
           /\ reg.result.label = reg.entry.label
           /\ reg.result.tapes = reg.entry.tapes
           /\ reg.result.file_index = reg.entry.file_index
           /\ reg.result.manifest = reg.entry.manifest

\* C11 as claimed: find(label) returns the first entry of the catalog whose
\* label field equals label, and NotFound when no entry has that label.
C11_FindFirstExactMatch ==
    reg.op = "find" =>
        LET entries == get_all_backups(registry_file)
            matches == EntriesFor(registry_file, reg.label)
        IN  IF matches = {} THEN ~reg.result.found
            ELSE LET first == CHOOSE n \in matches : \A k \in matches : n <= k
                 IN  /\ reg.result.found
                     /\ reg.result.label = reg.label
                     /\ reg.result.line_number = entries[first].line_number
                     /\ reg.result.timestamp = entries[first].timestamp

\* The five fields of the entries list() returns
Fields(entries) ==
    [n \in 1..Len(entries) |->
        [timestamp |-> entries[n].timestamp, label |-> entries[n].label,
         tapes |-> entries[n].tapes, file_index |-> entries[n].file_index,
         manifest |-> entries[n].manifest]]

\* Age in days of an entry written on the day `timestamp` names
Age(timestamp, clock) == clock - DigitValue[timestamp[1]]

Rewrites == {"prune", "recover", "rebuild"}

\* The copies of the catalog that exist
Copies == { backup_dir[n] : n \in 1..Len(backup_dir) } \cup bak_files

\* C13 as claimed: an operation that rewrites the catalog has stored a copy
\* of the content it replaces, and leaves the catalog alone when the copy
\* could not be made.
C13_CopyBeforeRewrite ==
    [][(reg'.op \in Rewrites /\ registry_file # <<>>
                               /\ registry_file' # registry_file)
          => registry_file \in Copies']_vars

\* The entries of the catalog that a prune with these parameters is to keep
ToKeep(content, clock, max_age_days) ==
    { e \in { Fields(get_all_backups(content))[n] :
                n \in 1..Len(get_all_backups(content)) } :
        \/ ~Parseable(e.timestamp)
        \/ Age(e.timestamp, clock) < max_age_days }

\* C14 as claimed: the rewrite of a prune leaves in the catalog every entry
\* that is in it and that the prune is to keep, the entries appended since
\* the prune read the catalog included.
C14_PruneLosesNoAppend ==
    [][(pruner.pc = "write" /\ pruner'.pc = "idle") =>
          ToKeep(registry_file, pruner.clock, pruner.max_age_days)
              \subseteq ToKeep(registry_file', pruner.clock, pruner.max_age_days)]_vars

\* A run of digits, as the date and the time of a manifest's name are
IsDigits(part) ==
    /\ part # <<>>
    /\ \A n \in 1..Len(part) : part[n] \in DOMAIN DigitValue

\* The file name has the shape <date>_<time>_<label>.txt
Shaped(filename) ==
    /\ endswith(filename, <<".","t","x","t">>)
    /\ LET parts == split(SubSeq(filename, 1, Len(filename) - 4), "_")
       IN  /\ Len(parts) >= 3
           /\ IsDigits(parts[1])
           /\ IsDigits(parts[2])
           /\ parts[3] # <<>>

\* The label in a file name of that shape: what follows the second underscore
LabelOf(filename) ==
    LET stem == SubSeq(filename, 1, Len(filename) - 4)
        second == IndexOf(stem, "_", IndexOf(stem, "_", 1) + 1)
    IN  SubSeq(stem, second + 1, Len(stem))

\* C15 as claimed: after a rebuild that wrote the catalog, the catalog holds
\* exactly one entry per manifest file named <date>_<time>_<label>.txt, with
\* that label, the placeholder tape set, file index 0 and the manifest's
\* path, and no entry for any other file.
C15_RebuildOneEntryPerManifest ==
    (reg.op = "rebuild" /\ reg.ok) =>
        LET entries == get_all_backups(registry_file)
            shaped == { name \in manifest_dir : Shaped(name) }
        IN  /\ Len(entries) = Cardinality(shaped)
            /\ { [label |-> entries[n].label, tapes |-> entries[n].tapes,
                   file_index |-> entries[n].file_index,
                   manifest |-> entries[n].manifest] : n \in 1..Len(entries) }
                 = { [label |-> LabelOf(name), tapes |-> <<"[","N","/","A","]">>,
                      file_index |-> <<"0">>, manifest |-> name] : name \in shaped }

\* The file index is a non-negative integer
NonNegative(file_index) == IsDigits(strip(file_index))

\* C16 as claimed: verify returns ok exactly when every entry of the catalog
\* has a non-negative integer file index and a manifest file that exists.
C16_VerifyOkIffEntriesSound ==
    (reg.op = "verify" /\ reg.before # <<>>) =>
        LET entries == get_all_backups(reg.before)
        IN  reg.ok <=> \A n \in 1..Len(entries) :
                           /\ NonNegative(entries[n].file_index)
                           /\ strip(entries[n].manifest) \in manifest_dir

\* A positioning command has returned
PositioningDone == drive.done /\ drive.call \in Positioning \cup {"driver_rewind"}

\* C17 as claimed: a positioning command is never attempted more than 3
\* times, returns success exactly when its last attempt succeeded, and
\* reports failure only after 3 failed attempts, whatever the kind of the
\* failures, a command timeout included.
C17_PositioningTriesThrice ==
    /\ drive.call \in Positioning \cup {"driver_rewind"} => drive.runs <= max_retries
    /\ (PositioningDone /\ drive.runs > 0 /\ ~drive.success)
          => Len(drive.failures) = max_retries

\* C18 as claimed: a call of status() issues the status command at most
\* once and never waits for a backoff.
C18_StatusNotRetried ==
    drive.call \in {"get_status", "is_ready_for_write"}
        => drive.runs <= 1 /\ drive.sleeps = 0

\* C19 as claimed: is_ready_for_write returns true only for a drive that is
\* reported online with no error, no cleaning required and no write
\* protection; a drive whose state is unknown is not reported ready.
C19_ReadyOnlyWhenOnline ==
    (drive.done /\ drive.call = "is_ready_for_write" /\ drive.ready)
        => /\ drive.info.status = "ready"
           /\ ~drive.info.cleaning_required
           /\ ~drive.info.is_write_protected

\* C20 as claimed: the size check_memory_for_mbuffer recommends is never
\* above the requested buffer size.
C20_RecommendedAtMostRequested ==
    monitor.op = "check_memory_for_mbuffer"
        => monitor.recommended_size <= monitor.mbuffer_size

\* C21: check_memory_for_mbuffer answers CRITICAL for every requested size
\* whenever the available memory is below the floor, and a worker whose
\* system check ran under such a snapshot returns from that check, with the
\* job Failed, without having started a pipeline.
C21_LowMemoryStopsJob ==
    /\ [](\A mbuffer_size \in BufferSizes, memory_available \in MemoryAvailable,
             memory_total \in MemoryTotal :
             (memory_available <= memory_total
              /\ memory_available < MIN_MEMORY_FOR_MBUFFER)
                => check_memory_for_mbuffer(mbuffer_size, memory_available,
                                            memory_total).status = "critical")
    /\ [](monitor.memory_available < MIN_MEMORY_FOR_MBUFFER
            => monitor.status \in {"critical", "unknown"})
    /\ [][\A o \in Objs : \A t \in Threads(o) :
            (/\ At(o, t, "backup_system")
             /\ objs'[o].threads[t] # objs[o].threads[t]
             /\ monitor' # monitor
             /\ monitor'.memory_available < MIN_MEMORY_FOR_MBUFFER)
                => /\ Finishes(o, t)
                   /\ objs[o].threads[t].process = "none"
                   /\ objs'[o].status = FAILED
                   /\ objs'[o].result.error_message = "system_not_ready"]_vars

C21_Witness ==
    \E o \in Objs :
        /\ WorkerFinished(o)
        /\ objs[o].result.error_message = "system_not_ready"
        /\ monitor.op = "check_all_resources"
        /\ monitor.memory_available < MIN_MEMORY_FOR_MBUFFER

\* C22 as claimed: the plan is 50% of the recommended size with 70% fill and
\* 512KiB blocks when memory is CRITICAL, 75% of it with 80% fill when
\* WARNING, and all of it with 90% fill and blocks of 1MiB above 2GiB, else
\* 256KiB, when OK.
C22_PlanFollowsClassification ==
    monitor.op = "get_optimal_mbuffer_params" =>
        LET plan == monitor.plan
            recommended == monitor.recommended_size
        IN  /\ monitor.status = "critical" =>
                  /\ plan.buffer_size = recommended \div 2
                  /\ plan.fill_percent = "70%"
                  /\ plan.block_size = "512k"
            /\ monitor.status = "warning" =>
                  /\ plan.buffer_size = (recommended * 3) \div 4
                  /\ plan.fill_percent = "80%"
            /\ monitor.status = "ok" =>
                  /\ plan.buffer_size = recommended
                  /\ plan.fill_percent = "90%"
                  /\ plan.block_size = IF plan.buffer_size > 2048
                                       THEN "1M" ELSE "256k"

\* C29 as claimed: the buffer size of the plan is never above the available
\* memory of the snapshot it was computed from.
C29_PlanFitsAvailableMemory ==
    monitor.op = "get_optimal_mbuffer_params" =>
        monitor.plan.buffer_size <= monitor.memory_available

\* C23 as claimed: a tape change that reports success has taken its steps in
\* the order cleaning check, prompt, append of the label to the tape set,
\* wait for insertion, rewind, and its rewind of the new tape succeeded.
C23_ChangeOrderAndRewind ==
    (changer.pc = "done" /\ changer.result = "true") =>
        /\ changer.steps = <<"cleaning_check", "prompt", "append", "wait", "rewind">>
        /\ changer.tmp_tapes_file = <<changer.label>>
        /\ changer.rewind_ok

\* C24 as claimed: without operator input, a tape change that was started
\* ends.
C24_ChangeEndsWithoutInput ==
    (changer.pc # "idle" /\ changer.stdin # "open") ~> (changer.pc = "done")

\* Worker t of job o takes a line of the pipeline's output in this step and
\* goes on reading
ProcessesLine(o, t) ==
    /\ At(o, t, "backup_read")
    /\ objs'[o].threads[t].pc = "backup_read"
    /\ objs'[o].threads[t].buffer < objs[o].threads[t].buffer

\* C25 as claimed: once cancel() has set the cancellation flag while the
\* job's pipeline was running, no worker of the job takes a further line of
\* pipeline output: the worker that reads one terminates the pipeline.
C25_NoLineAfterCancel ==
    [][\A o \in Objs : \A t \in Threads(o) :
          objs[o].cancel_in_pipeline => ~ProcessesLine(o, t)]_vars

\* C30 as claimed: however the calls of start() on a job interleave, the job
\* has at most one worker and at most one call returned True.
C30_OneWorkerPerJob ==
    \A o \in Objs :
        /\ Len(objs[o].threads) <= 1
        /\ Cardinality({ c \in 1..Len(objs[o].starts) :
                           objs[o].starts[c].returned }) <= 1

\* The lines of a catalog that are not empty and have fewer than 5 fields
MalformedLines(content) ==
    SelectSeq(read_lines(content, TRUE),
              LAMBDA line : Len(split(strip(line), ";")) < 5)

\* How many lines of the sequence equal the line
Occurrences(lines, line) ==
    Cardinality({ n \in 1..Len(lines) : lines[n] = line })

\* C27 as claimed: after an append or a prune, every malformed line (fewer
\* than 5 fields) that the catalog held before the call is still in the
\* catalog, as many times as before: no write removes it.
C27_MalformedLinesSurviveWrites ==
    reg.op \in {"append", "prune"} =>
        \A n \in 1..Len(MalformedLines(reg.before)) :
            LET line == MalformedLines(reg.before)[n]
            IN  Occurrences(MalformedLines(registry_file), line)
                    >= Occurrences(MalformedLines(reg.before), line)

\* C28 as claimed: the file index stored with a completed backup is the tape
\* file at which its data stream begins, and a restore of a backup whose
\* data is still on the tape starts reading at that file.
C28_IndexIsStartOfData ==
    /\ \A n \in 1..Len(tape.registry) :
          tape.registry[n].file_index = tape.registry[n].begin
    /\ (/\ tape.restored # 0
        /\ tape.registry[tape.restored].begin < Len(tape.files)
        /\ tape.files[tape.registry[tape.restored].begin + 1]
              = tape.registry[tape.restored].label)
          => tape.reads_at = tape.registry[tape.restored].begin

\* C26 as claimed: no thread inside a JobManager method holds job_lock
\* while a tape device command that it started is executing, so no other
\* thread's JobManager call waits for the device.
C26_LockNotHeldAcrossDevice ==
    \A c \in Callers :
        manager.calls[c].pc = "mt_status" => manager.job_lock # c

====
